---- MODULE Spec2Model ----
(***************************************************************************)
(* Source Orbit VS Code client: the request-forwarding module              *)
(* (requests.ts) and the activation routine (extension.ts) with its       *)
(* commands, the two impact views and the git state-change handlers.       *)
(***************************************************************************)
EXTENDS Naturals, Sequences, FiniteSets, TLC

VARIABLES
  client,            \* requests.ts: let client (set by setClient)
  extClient,         \* extension.ts: let client
  lcState,           \* connection state of the LanguageClient object
  phase,             \* extension lifecycle as driven by the host
  folders,           \* workspace.workspaceFolders
  repoHead,          \* git API: per folder, the repository and its HEAD name
  subs,              \* repo.state.onDidChange listeners pushed to context.subscriptions
  lastBranch,        \* git.ts: lastBranch map, keyed by workspace URI string
  gitImpactView,     \* files last given to gitImpactView.showImpactFor
  activeImpactView,  \* files last given to activeImpactView.showImpactFor
  lookups,           \* getChangedFiles promises not yet settled
  loads,             \* loadProject commands awaiting their reloadProject reply
  pickers,           \* auto-fix pickers shown and not yet answered
  projectsLoaded,    \* context key vscode-sourceorbit:projectsLoaded
  gitApi,            \* what getGitAPI() gives: the git extension's API or undefined
  last               \* the operation that led to this state and what it did

vars == <<client, extClient, lcState, phase, folders, repoHead, subs, lastBranch,
          gitImpactView, activeImpactView, lookups, loads, pickers,
          projectsLoaded, gitApi, last>>

-----------------------------------------------------------------------------
(* Bounds *)

MaxSubs == 2
MaxLookups == 2
MaxLoads == 1
MaxPickers == 1

-----------------------------------------------------------------------------
(* Values *)

NoClient == "undefined"
TheClient == "LanguageClient"

\* vscode.Uri: scheme and path; toString() renders scheme://path
MkUri(path) == [scheme |-> "file", path |-> path]
UriToString(u) == u.scheme \o "://" \o u.path

FolderA == [name |-> "a", uri |-> MkUri("/a")]
FolderB == [name |-> "b", uri |-> MkUri("/b")]
WorkspaceFolders == {FolderA, FolderB}

FileX == MkUri("/a/x.rpgle")
FileY == MkUri("/b/y.sql")
Files == {FileX, FileY}
FileLists == {<<>>, <<FileX>>, <<FileX, FileY>>}

RECURSIVE MapToString(_)
MapToString(us) ==
  IF us = <<>> THEN <<>> ELSE <<UriToString(Head(us))>> \o MapToString(Tail(us))

\* One observable effect of an operation.
\*   e: "send" | "show" | "lookup" | "enableViews" | "refresh"
\*   a: request name, view name or workspace URI string
\*   p: scalar string parameters, f: file list
Fx(e, a, p, f) == [e |-> e, a |-> a, p |-> p, f |-> f]

\* What a call hands back: a settled or pending promise, undefined, or a throw.
Ret(kind, val) == [kind |-> kind, val |-> val]
NoRet == Ret("void", "")

\* The record of one operation: its name, its string inputs (with the facts of
\* the state it ran in that the properties speak of), its result, its effects.
Op(op, args, ret, fx) == [op |-> op, args |-> args, ret |-> ret, fx |-> fx]

-----------------------------------------------------------------------------
(* requests.ts *)

\* client.sendRequest(method, params); on an unset client the member access throws
SendRequest(c, method, p, f) ==
  IF c = NoClient
    THEN [ret |-> Ret("throw", "TypeError"), fx |-> <<>>]
    ELSE [ret |-> Ret("pending", method), fx |-> <<Fx("send", method, p, f)>>]

\* an async function turns a throw in its body into a rejected promise
Async(r) ==
  IF r.ret.kind = "throw" THEN [ret |-> Ret("rejected", r.ret.val), fx |-> r.fx] ELSE r

isReady(c, wf) ==
  IF c = NoClient
    THEN [ret |-> Ret("resolved", "false"), fx |-> <<>>]
    ELSE Async(SendRequest(c, "isReady", <<UriToString(wf.uri)>>, <<>>))

getResolvedObjects(c, wf) ==
  IF c = NoClient
    THEN [ret |-> Ret("resolved", "[]"), fx |-> <<>>]
    ELSE Async(SendRequest(c, "getResolvedObjects", <<UriToString(wf.uri)>>, <<>>))

getDeps(c, wf, ileObject) ==
  IF c = NoClient
    THEN [ret |-> Ret("resolved", "[]"), fx |-> <<>>]
    ELSE Async(SendRequest(c, "getDeps", <<UriToString(wf.uri), ileObject>>, <<>>))

getImpacts(c, wf, fileUris) ==
  IF c = NoClient
    THEN [ret |-> Ret("resolved", "[]"), fx |-> <<>>]
    ELSE Async(SendRequest(c, "getImpacts", <<UriToString(wf.uri)>>, MapToString(fileUris)))

reloadProject(c, wf) ==
  IF c = NoClient
    THEN [ret |-> Ret("rejected", ""), fx |-> <<>>]
    ELSE SendRequest(c, "reloadProject", <<UriToString(wf.uri)>>, <<>>)

\* fixProject without its client guard
fixProject_NoGuard(c, wf, suggestion) ==
  SendRequest(c, "fixProject", <<UriToString(wf.uri), suggestion>>, <<>>)

fixProject(c, wf, suggestion) ==
  IF c = NoClient
    THEN [ret |-> Ret("undefined", ""), fx |-> <<>>]
    ELSE SendRequest(c, "fixProject", <<UriToString(wf.uri), suggestion>>, <<>>)

RequestNames ==
  {"isReady", "getResolvedObjects", "getDeps", "getImpacts", "reloadProject", "fixProject"}

Suggestions == {"includes", "renames"}

\* The argument tuples a caller may pass besides the workspace folder.
CallArgs(fn) ==
  CASE fn = "getDeps" -> {<<"PGM">>}
    [] fn = "getImpacts" -> {<<fl>> : fl \in FileLists}
    [] fn = "fixProject" -> {<<s>> : s \in Suggestions}
    [] OTHER -> {<<>>}

Request(fn, c, wf, args) ==
  CASE fn = "isReady" -> isReady(c, wf)
    [] fn = "getResolvedObjects" -> getResolvedObjects(c, wf)
    [] fn = "getDeps" -> getDeps(c, wf, args[1])
    [] fn = "getImpacts" -> getImpacts(c, wf, args[1])
    [] fn = "reloadProject" -> reloadProject(c, wf)
    [] fn = "fixProject" -> fixProject(c, wf, args[1])

-----------------------------------------------------------------------------
(* The host and the git extension, as far as extension.ts reads them *)

\* getGitAPI() gives undefined or the git extension's API.  On each refresh of a
\* repository's state the extension either builds a new HEAD object or updates
\* the one it has; which, this code does not decide.
NoGitApi == "undefined"
GitApis == {"replaces HEAD", "updates HEAD"}

NoRepo == "no repository"      \* gitApi.getRepository(uri) gives nothing
NoBranch == ""                 \* repo.state.HEAD is undefined or has no name
Branches == {"main", "dev"}
HeadValues == {NoRepo, NoBranch} \cup Branches

\* An optional value (undefined or a value) is <<>> or <<value>>.
None == <<>>
Some(x) == <<x>>

\* ObjectsView tree nodes handed to the commands: a node, with or without a
\* workspace folder, or no node at all
Nodes == {[workspaceFolder |-> Some(wf)] : wf \in WorkspaceFolders}
           \cup {[workspaceFolder |-> None]}
NodeArgs == {Some(n) : n \in Nodes} \cup {None}

\* What onDidChangeActiveTextEditor carries: an editor (with its document) or undefined
Editors == {[document |-> Some([uri |-> f])] : f \in Files} \cup {[document |-> None]}
EditorArgs == {Some(e) : e \in Editors} \cup {None}

PickerAnswers == {"Cancel", "File names", "RPG includes", "undefined"}

\* workspace.workspaceFolders is an array: the folders in a fixed order
FolderSeq(set) ==
  (IF FolderA \in set THEN <<FolderA>> ELSE <<>>) \o
  (IF FolderB \in set THEN <<FolderB>> ELSE <<>>)

UriStrings == {UriToString(wf.uri) : wf \in WorkspaceFolders}

RECURSIVE Remove(_, _)
Remove(seq, i) ==
  IF seq = <<>> THEN <<>>
  ELSE IF i = 1 THEN Tail(seq) ELSE <<Head(seq)>> \o Remove(Tail(seq), i - 1)

-----------------------------------------------------------------------------
(* extension.ts: setupGitEventHandler *)

\* One pass of the for loop: the state after setting up folder wf.
\* st is [subs, lastBranch].  A listener keeps the HEAD object read at
\* registration: name is the name that object shows now, live tells whether it
\* is still the object repo.state.HEAD returns.
SetupOne(st, wf, heads) ==
  LET head == heads[wf]
      workspaceUri == UriToString(wf.uri)
  IN IF head # NoRepo /\ head # NoBranch
       THEN [subs |-> Append(st.subs, [wf |-> wf, name |-> head, live |-> TRUE]),
             lastBranch |-> [st.lastBranch EXCEPT ![workspaceUri] = head]]
       ELSE st

RECURSIVE setupGitEventHandler(_, _, _, _)
setupGitEventHandler(st, workspaceFolders, heads, api) ==
  IF api = NoGitApi \/ workspaceFolders = <<>> THEN st
  ELSE setupGitEventHandler(SetupOne(st, Head(workspaceFolders), heads),
                            Tail(workspaceFolders), heads, api)

\* The listener body (lines 100-116), run for listener s on state
\* st = [lastBranch, view, lookups, fx].
OnDidChange(st, s, c) ==
  LET currentBranch == s.name
      workspaceUri == UriToString(s.wf.uri)
  IN IF currentBranch = NoBranch THEN st
     ELSE IF st.lastBranch[workspaceUri] # NoBranch
             /\ currentBranch # st.lastBranch[workspaceUri]
       THEN [lastBranch |-> [st.lastBranch EXCEPT ![workspaceUri] = currentBranch],
             view |-> <<>>,
             lookups |-> [i \in DOMAIN st.lookups |->
                            [st.lookups[i] EXCEPT !.cleared = TRUE]],
             fx |-> st.fx \o <<Fx("show", "gitImpactView", <<>>, <<>>)>>
                      \o reloadProject(c, s.wf).fx]
       ELSE [lastBranch |-> [st.lastBranch EXCEPT ![workspaceUri] = currentBranch],
             view |-> st.view,
             lookups |-> Append(st.lookups, [wf |-> s.wf, cleared |-> FALSE]),
             fx |-> st.fx \o <<Fx("lookup", workspaceUri, <<>>, <<>>)>>]

\* The event emitter calls the listeners of the repository in registration order.
RECURSIVE Fire(_, _, _, _)
Fire(st, listeners, wf, c) ==
  IF listeners = <<>> THEN st
  ELSE Fire(IF Head(listeners).wf = wf THEN OnDidChange(st, Head(listeners), c) ELSE st,
            Tail(listeners), wf, c)

\* The HEAD objects the listeners hold after the repository refreshed its state
\* to branch b: the git extension either builds a new HEAD object (the held ones
\* go stale) or updates the one it has.
Refreshed(listeners, wf, b, api) ==
  [i \in DOMAIN listeners |->
     IF listeners[i].wf # wf THEN listeners[i]
     ELSE IF api = "updates HEAD"
       THEN IF listeners[i].live THEN [listeners[i] EXCEPT !.name = b] ELSE listeners[i]
       ELSE [listeners[i] EXCEPT !.live = FALSE]]

-----------------------------------------------------------------------------
(* extension.ts: the callbacks, each as a function of what it is given *)

setClient(lc) == lc

\* the callback dropping the result of a lookup overtaken by a branch switch
ThenShowImpact_Cancelled(lookup, files) ==
  IF lookup.cleared
    THEN [view |-> gitImpactView, fx |-> <<>>]
    ELSE [view |-> files, fx |-> <<Fx("show", "gitImpactView", <<>>, files)>>]

\* .then(files => gitImpactView.showImpactFor(files)), lines 108-110
\* for the lookup it was chained on; nothing of the lookup is consulted
ThenShowImpact(lookup, files) ==
  [view |-> files, fx |-> <<Fx("show", "gitImpactView", <<>>, files)>>]

\* the listener adding the document to what the view shows
OnActiveEditor_Appends(view, e) ==
  IF e # None /\ e[1].document # None
    THEN [view |-> view \o <<e[1].document[1].uri>>,
          fx |-> <<Fx("show", "activeImpactView", <<>>, view \o <<e[1].document[1].uri>>)>>]
    ELSE [view |-> view, fx |-> <<>>]

\* window.onDidChangeActiveTextEditor listener, lines 162-167
OnActiveEditor(view, e) ==
  IF e # None /\ e[1].document # None
    THEN [view |-> <<e[1].document[1].uri>>,
          fx |-> <<Fx("show", "activeImpactView", <<>>, <<e[1].document[1].uri>>)>>]
    ELSE [view |-> view, fx |-> <<>>]

\* the switch with its two cases exchanged
FixType_Swapped(chosen) ==
  CASE chosen = "File names" -> "includes"
    [] chosen = "RPG includes" -> "renames"
    [] OTHER -> "undefined"

\* the switch of the auto-fix picker, lines 143-148
FixType(chosen) ==
  CASE chosen = "File names" -> "renames"
    [] chosen = "RPG includes" -> "includes"
    [] OTHER -> "undefined"

\* the picker's then callback, lines 141-154
OnPicked(c, wf, chosen) ==
  IF chosen # "undefined" /\ FixType(chosen) # "undefined"
    THEN fixProject(c, wf, FixType(chosen))
    ELSE [ret |-> NoRet, fx |-> <<>>]

\* loadProject without the await: the rest of the body runs whatever the reply
AfterReload_NotAwaited(resolved, wf) ==
  <<Fx("enableViews", "vscode-sourceorbit:projectsLoaded", <<>>, <<>>),
    Fx("refresh", UriToString(wf.uri), <<>>, <<>>)>>

\* what follows `await reloadProject(...)` in loadProject, lines 126-128:
\* the rest of the body runs only when the awaited promise resolved
AfterReload(resolved, wf) ==
  IF resolved
    THEN <<Fx("enableViews", "vscode-sourceorbit:projectsLoaded", <<>>, <<>>),
           Fx("refresh", UriToString(wf.uri), <<>>, <<>>)>>
    ELSE <<>>

Listening == phase \in {"active", "deactivated"}

\* The client has been started and not stopped: a request handed to it reaches
\* the server, at once or when the start completes.
Connected == lcState \in {"starting", "running"}

-----------------------------------------------------------------------------
(* Initial state: the extension is loaded and not activated; the workspace and
   the repositories are whatever the user has open.  The lastBranch map
   (imported from ./git) holds no branch for any workspace. *)

Init ==
  /\ client = NoClient
  /\ extClient = NoClient
  /\ lcState = "none"
  /\ phase = "inactive"
  /\ folders \in SUBSET WorkspaceFolders
  /\ gitApi \in {NoGitApi} \cup GitApis
  /\ repoHead \in [WorkspaceFolders -> HeadValues]
  /\ gitApi = NoGitApi => \A wf \in WorkspaceFolders : repoHead[wf] = NoRepo
  /\ subs = <<>>
  /\ lastBranch = [u \in UriStrings |-> NoBranch]
  /\ gitImpactView = <<>>
  /\ activeImpactView = <<>>
  /\ lookups = <<>>
  /\ loads = <<>>
  /\ pickers = <<>>
  /\ projectsLoaded = FALSE
  /\ last = Op("init", <<>>, NoRet, <<>>)

-----------------------------------------------------------------------------
(* Lifecycle *)

Activate ==
  /\ phase = "inactive"
  /\ LET st == IF folders # {}
                 THEN setupGitEventHandler([subs |-> <<>>, lastBranch |-> lastBranch],
                                           FolderSeq(folders), repoHead, gitApi)
                 ELSE [subs |-> <<>>, lastBranch |-> lastBranch]
     IN /\ subs' = st.subs
        /\ lastBranch' = st.lastBranch
  /\ extClient' = TheClient
  /\ lcState' = "starting"
  /\ client' = setClient(TheClient)
  /\ gitImpactView' = <<>>
  /\ activeImpactView' = <<>>
  /\ phase' = "active"
  /\ last' = Op("activate", <<>>, NoRet, <<>>)
  /\ UNCHANGED <<folders, repoHead, lookups, loads, pickers, projectsLoaded, gitApi>>

\* client.start() completes: the connection to the server is up
ClientStarted ==
  /\ lcState = "starting"
  /\ lcState' = "running"
  /\ last' = Op("clientStarted", <<>>, NoRet, <<>>)
  /\ UNCHANGED <<client, extClient, phase, folders, repoHead, subs, lastBranch,
                 gitImpactView, activeImpactView, lookups, loads, pickers,
                 projectsLoaded, gitApi>>

Deactivate ==
  /\ phase = "active"
  /\ lcState' = IF extClient = NoClient THEN lcState ELSE "stopped"
  /\ phase' = "deactivated"
  /\ last' = Op("deactivate", <<>>,
                IF extClient = NoClient THEN Ret("undefined", "") ELSE Ret("pending", "stop"),
                <<>>)
  /\ UNCHANGED <<client, extClient, folders, repoHead, subs, lastBranch,
                 gitImpactView, activeImpactView, lookups, loads, pickers,
                 projectsLoaded, gitApi>>

\* the host disposes context.subscriptions once deactivate has returned
Dispose ==
  /\ phase = "deactivated"
  /\ phase' = "disposed"
  /\ subs' = <<>>
  /\ last' = Op("dispose", <<>>, NoRet, <<>>)
  /\ UNCHANGED <<client, extClient, lcState, folders, repoHead, lastBranch,
                 gitImpactView, activeImpactView, lookups, loads, pickers,
                 projectsLoaded, gitApi>>

\* a caller (a tree view, a command) calls one of the exported request functions
CallRequest(fn, wf, args) ==
  /\ LET r == Request(fn, client, wf, args)
     IN last' = Op("request", <<fn, wf.name>>, r.ret, r.fx)
  /\ UNCHANGED <<client, extClient, lcState, phase, folders, repoHead, subs,
                 lastBranch, gitImpactView, activeImpactView, lookups, loads,
                 pickers, projectsLoaded, gitApi>>

-----------------------------------------------------------------------------
(* Git: repository state changes and the workspace's folders *)

\* The repository of folder wf refreshed its state (HEAD now names branch b, or
\* nothing) and fired state.onDidChange: every listener on it runs.
StateChange(wf, b) ==
  /\ Listening
  /\ gitApi # NoGitApi
  /\ repoHead[wf] # NoRepo
  /\ LET listeners == Refreshed(subs, wf, b, gitApi)
         st == Fire([lastBranch |-> lastBranch, view |-> gitImpactView,
                     lookups |-> lookups, fx |-> <<>>],
                    listeners, wf, client)
     IN /\ Len(st.lookups) <= MaxLookups
        /\ subs' = listeners
        /\ lastBranch' = st.lastBranch
        /\ gitImpactView' = st.view
        /\ lookups' = st.lookups
        /\ last' = Op("stateChange",
                      <<wf.name, b, lastBranch[UriToString(wf.uri)]>>,
                      NoRet, st.fx)
  /\ repoHead' = [repoHead EXCEPT ![wf] = b]
  /\ UNCHANGED <<client, extClient, lcState, phase, folders, activeImpactView,
                 loads, pickers, projectsLoaded, gitApi>>

\* the git extension opens (discovers) the repository of folder wf
GitOpenRepo(wf, b) ==
  /\ Listening
  /\ gitApi # NoGitApi
  /\ repoHead[wf] = NoRepo
  /\ repoHead' = [repoHead EXCEPT ![wf] = b]
  /\ last' = Op("gitOpen", <<wf.name, b>>, NoRet, <<>>)
  /\ UNCHANGED <<client, extClient, lcState, phase, folders, subs, lastBranch,
                 gitImpactView, activeImpactView, lookups, loads, pickers,
                 projectsLoaded, gitApi>>

\* workspace.onDidChangeWorkspaceFolders with e.added = [wf]
AddFolder(wf) ==
  /\ Listening
  /\ wf \notin folders
  /\ folders' = folders \cup {wf}
  /\ LET st == setupGitEventHandler([subs |-> subs, lastBranch |-> lastBranch],
                                    <<wf>>, repoHead, gitApi)
     IN /\ Len(st.subs) <= MaxSubs
        /\ subs' = st.subs
        /\ lastBranch' = st.lastBranch
  /\ last' = Op("addFolder", <<wf.name>>, NoRet, <<>>)
  /\ UNCHANGED <<client, extClient, lcState, phase, repoHead, gitImpactView,
                 activeImpactView, lookups, loads, pickers, projectsLoaded, gitApi>>

\* workspace.onDidChangeWorkspaceFolders with e.removed = [wf], e.added = []:
\* the listener sets up nothing and disposes nothing.  The git extension may
\* close the folder's repository (its listeners are then never called again)
\* or keep it open.
RemoveFolder(wf, closes) ==
  /\ Listening
  /\ wf \in folders
  /\ folders' = folders \ {wf}
  /\ IF closes /\ repoHead[wf] # NoRepo
       THEN /\ repoHead' = [repoHead EXCEPT ![wf] = NoRepo]
            /\ subs' = SelectSeq(subs, LAMBDA s : s.wf # wf)
       ELSE UNCHANGED <<repoHead, subs>>
  /\ last' = Op("removeFolder", <<wf.name>>, NoRet, <<>>)
  /\ UNCHANGED <<client, extClient, lcState, phase, lastBranch, gitImpactView,
                 activeImpactView, lookups, loads, pickers, projectsLoaded, gitApi>>

\* the promise of getChangedFiles(workspaceFolder) settles: resolved with a
\* file list (outcome = Some(files)) or rejected (outcome = None)
LookupSettled(i, outcome) ==
  /\ i \in DOMAIN lookups
  /\ lookups' = Remove(lookups, i)
  /\ LET r == IF outcome # None THEN ThenShowImpact(lookups[i], outcome[1])
                                ELSE [view |-> gitImpactView, fx |-> <<>>]
     IN /\ gitImpactView' = r.view
        /\ last' = Op("lookupSettled",
                      <<lookups[i].wf.name,
                        IF lookups[i].cleared THEN "cleared since" ELSE "">>,
                      IF outcome # None THEN Ret("resolved", "") ELSE Ret("rejected", ""),
                      r.fx)
  /\ UNCHANGED <<client, extClient, lcState, phase, folders, repoHead, subs,
                 lastBranch, activeImpactView, loads, pickers, projectsLoaded, gitApi>>

ActiveEditorChanged(e) ==
  /\ Listening
  /\ LET r == OnActiveEditor(activeImpactView, e)
     IN /\ activeImpactView' = r.view
        /\ last' = Op("activeEditor",
                      IF e # None /\ e[1].document # None
                        THEN <<e[1].document[1].uri.path>> ELSE <<>>,
                      NoRet, r.fx)
  /\ UNCHANGED <<client, extClient, lcState, phase, folders, repoHead, subs,
                 lastBranch, gitImpactView, lookups, loads, pickers,
                 projectsLoaded, gitApi>>

-----------------------------------------------------------------------------
(* Commands *)

\* vscode-sourceorbit.objects.loadProject, up to its await.  A node whose
\* workspaceFolder is undefined makes reloadProject read .uri of undefined once
\* the client guard has passed: the async command rejects.
LoadProject(node) ==
  /\ Listening
  /\ IF node # None
       THEN LET folder == node[1].workspaceFolder
                r == IF folder # None THEN reloadProject(client, folder[1])
                     ELSE IF client = NoClient THEN [ret |-> Ret("rejected", ""), fx |-> <<>>]
                     ELSE [ret |-> Ret("rejected", "TypeError"), fx |-> <<>>]
            IN /\ loads' = IF r.ret.kind = "pending" THEN Append(loads, folder[1]) ELSE loads
               /\ Len(loads') <= MaxLoads
               /\ last' = Op("loadProject",
                             IF folder # None THEN <<folder[1].name>> ELSE <<"">>,
                             r.ret, r.fx)
       ELSE /\ loads' = loads
            /\ last' = Op("loadProject", <<>>, NoRet, <<>>)
  /\ UNCHANGED <<client, extClient, lcState, phase, folders, repoHead, subs,
                 lastBranch, gitImpactView, activeImpactView, lookups, pickers,
                 projectsLoaded, gitApi>>

\* the reloadProject request of a loadProject command is answered (resolved)
\* or fails (rejected); the command resumes after its await
LoadReply(i, resolved) ==
  /\ i \in DOMAIN loads
  /\ resolved => lcState = "running"
  /\ loads' = Remove(loads, i)
  /\ LET fx == AfterReload(resolved, loads[i])
     IN /\ projectsLoaded' =
             (projectsLoaded \/ \E k \in DOMAIN fx : fx[k].e = "enableViews")
        /\ last' = Op("loadReply", <<loads[i].name>>,
                      IF resolved THEN Ret("resolved", "") ELSE Ret("rejected", ""), fx)
  /\ UNCHANGED <<client, extClient, lcState, phase, folders, repoHead, subs,
                 lastBranch, gitImpactView, activeImpactView, lookups, pickers, gitApi>>

\* vscode-sourceorbit.objects.autoFix, up to the picker being shown
AutoFix(node) ==
  /\ Listening
  /\ IF node # None /\ node[1].workspaceFolder # None
       THEN /\ Len(pickers) < MaxPickers
            /\ pickers' = Append(pickers, node[1].workspaceFolder[1])
            /\ last' = Op("autoFix", <<node[1].workspaceFolder[1].name>>,
                          NoRet, <<>>)
       ELSE /\ pickers' = pickers
            /\ last' = Op("autoFix", <<>>, NoRet, <<>>)
  /\ UNCHANGED <<client, extClient, lcState, phase, folders, repoHead, subs,
                 lastBranch, gitImpactView, activeImpactView, lookups, loads,
                 projectsLoaded, gitApi>>

\* the user answers (or dismisses) the picker
Picked(i, chosen) ==
  /\ i \in DOMAIN pickers
  /\ pickers' = Remove(pickers, i)
  /\ LET r == OnPicked(client, pickers[i], chosen)
     IN last' = Op("picked", <<pickers[i].name, chosen>>, r.ret, r.fx)
  /\ UNCHANGED <<client, extClient, lcState, phase, folders, repoHead, subs,
                 lastBranch, gitImpactView, activeImpactView, lookups, loads,
                 projectsLoaded, gitApi>>

\* vscode-sourceorbit.autoFix
AutoFixCommand(wf, type) ==
  /\ Listening
  /\ LET r == fixProject(client, wf, type)
     IN last' = Op("autoFixCommand", <<wf.name, type>>, r.ret, r.fx)
  /\ UNCHANGED <<client, extClient, lcState, phase, folders, repoHead, subs,
                 lastBranch, gitImpactView, activeImpactView, lookups, loads,
                 pickers, projectsLoaded, gitApi>>

-----------------------------------------------------------------------------
(* Specifications *)

\* The request functions, the commands that use them and the client's
\* lifecycle, in a window without the git extension
InitRequests == Init /\ gitApi = NoGitApi

NextRequests ==
  \/ Activate
  \/ ClientStarted
  \/ Deactivate
  \/ Dispose
  \/ \E fn \in RequestNames, wf \in WorkspaceFolders :
       \E args \in CallArgs(fn) : CallRequest(fn, wf, args)
  \/ \E node \in NodeArgs : LoadProject(node)
  \/ \E i \in 1..MaxLoads, resolved \in BOOLEAN : LoadReply(i, resolved)
  \/ \E node \in NodeArgs : AutoFix(node)
  \/ \E i \in 1..MaxPickers, chosen \in PickerAnswers : Picked(i, chosen)
  \/ \E wf \in WorkspaceFolders, type \in Suggestions : AutoFixCommand(wf, type)

SpecRequests == InitRequests /\ [][NextRequests]_vars

\* The git state-change handlers and the git-impact view, from activation on.
\* FolderA lies in a git repository (open or not yet); FolderB lies in none.
InGit == {FolderA}

InitGit == Init /\ gitApi # NoGitApi /\ \A wf \in WorkspaceFolders \ InGit : repoHead[wf] = NoRepo

NextGit ==
  \/ Activate
  \/ \E wf \in WorkspaceFolders, b \in Branches \cup {NoBranch} : StateChange(wf, b)
  \/ \E wf \in InGit, b \in Branches \cup {NoBranch} : GitOpenRepo(wf, b)
  \/ \E wf \in WorkspaceFolders : AddFolder(wf)
  \/ \E wf \in WorkspaceFolders, closes \in BOOLEAN : RemoveFolder(wf, closes)
  \/ \E i \in 1..MaxLookups, outcome \in {Some(fl) : fl \in FileLists} \cup {None} :
       LookupSettled(i, outcome)

SpecGit == InitGit /\ [][NextGit]_vars

\* The two impact views: editor changes beside repository changes
NextViews ==
  \/ Activate
  \/ Deactivate
  \/ Dispose
  \/ \E e \in EditorArgs : ActiveEditorChanged(e)
  \/ \E wf \in WorkspaceFolders, b \in Branches \cup {NoBranch} : StateChange(wf, b)
  \/ \E i \in 1..MaxLookups, outcome \in {Some(fl) : fl \in FileLists} \cup {None} :
       LookupSettled(i, outcome)

SpecViews == InitGit /\ [][NextViews]_vars

-----------------------------------------------------------------------------
(* Properties *)

\* The workspace URI strings the server is to receive, written out
ExpectedUri(name) ==
  CASE name = "a" -> "file:///a"
    [] name = "b" -> "file:///b"
    [] OTHER -> "?"

CountFx(fx, kinds) == Cardinality({k \in DOMAIN fx : fx[k].e \in kinds})

\* C1 as claimed: a request function called while no client is set does not
\* throw, sends nothing and returns an empty list, false or a rejected promise.
C1_DegradedValueDocumented ==
  (last.op = "request" /\ client = NoClient) =>
     /\ last.ret.kind # "throw"
     /\ last.fx = <<>>
     /\ last.ret \in {Ret("resolved", "[]"), Ret("resolved", "false"), Ret("rejected", "")}

\* C1 amended: a request function called while no client is set does not throw,
\* sends nothing and returns its own degraded value: isReady a promise of false,
\* getResolvedObjects, getDeps and getImpacts a promise of the empty list,
\* reloadProject a rejected promise, and fixProject undefined.
C1_DegradedValue ==
  (last.op = "request" /\ client = NoClient) =>
     /\ last.fx = <<>>
     /\ last.ret =
          CASE last.args[1] = "isReady" -> Ret("resolved", "false")
            [] last.args[1] \in {"getResolvedObjects", "getDeps", "getImpacts"} ->
                 Ret("resolved", "[]")
            [] last.args[1] = "reloadProject" -> Ret("rejected", "")
            [] last.args[1] = "fixProject" -> Ret("undefined", "")

C1_Witness ==
  /\ last.op = "request"
  /\ client = NoClient
  /\ last.args[1] = "fixProject"
  /\ last.ret.kind = "undefined"

\* C2 as claimed: in every state of the lifecycle (not activated, client
\* started, client stopped by deactivate), a request function called while
\* there is no connection to the server hands no request to the client.
C2_NoRequestWithoutConnection ==
  (last.op = "request" /\ ~Connected) => last.fx = <<>>

\* C5: answering the auto-fix picker with "File names" sends exactly one
\* fixProject request with "renames", with "RPG includes" exactly one with
\* "includes", with "Cancel" or by dismissing it none; each request sent carries
\* the node's workspace URI string first.  A node without a folder, or no node,
\* shows no picker and sends nothing.
C5_AutoFixForwardsChoice ==
  /\ last.op = "picked" =>
       /\ last.args[2] = "File names" =>
            last.fx = <<Fx("send", "fixProject",
                           <<ExpectedUri(last.args[1]), "renames">>, <<>>)>>
       /\ last.args[2] = "RPG includes" =>
            last.fx = <<Fx("send", "fixProject",
                           <<ExpectedUri(last.args[1]), "includes">>, <<>>)>>
       /\ last.args[2] \in {"Cancel", "undefined"} => last.fx = <<>>
  /\ last.op = "autoFix" => last.fx = <<>>

C5_Witness ==
  /\ last.op = "picked"
  /\ last.args = <<"b", "File names">>
  /\ Len(last.fx) = 1
  /\ lcState = "running"

\* C10: in loadProject the views are enabled and then the node refreshed only
\* once the reloadProject request of the node's workspace has resolved; when it
\* rejects (or is rejected at once, no request being sent) neither happens, and
\* without a node nothing is sent.
C10_LoadProjectAwaitsReload ==
  /\ (last.op = "loadReply" /\ last.ret.kind = "resolved") =>
       /\ last.fx = <<Fx("enableViews", "vscode-sourceorbit:projectsLoaded", <<>>, <<>>),
                      Fx("refresh", ExpectedUri(last.args[1]), <<>>, <<>>)>>
       /\ projectsLoaded
  /\ (last.op = "loadReply" /\ last.ret.kind # "resolved") => last.fx = <<>>
  /\ last.op = "loadProject" =>
       /\ CountFx(last.fx, {"enableViews", "refresh"}) = 0
       /\ last.args = <<>> => last.fx = <<>>
       /\ last.ret.kind = "rejected" => last.fx = <<>>
       /\ last.ret.kind = "pending" =>
            last.fx = <<Fx("send", "reloadProject", <<ExpectedUri(last.args[1])>>, <<>>)>>
  /\ CountFx(last.fx, {"enableViews", "refresh"}) > 0 =>
       (last.op = "loadReply" /\ last.ret.kind = "resolved")

C10_Witness ==
  /\ last.op = "loadReply"
  /\ last.ret.kind = "resolved"
  /\ last.args = <<"a">>
  /\ projectsLoaded

\* What the active-editor listener shows, read off the state it leaves
C6_State ==
  last.op = "activeEditor" =>
     /\ last.args # <<>> =>
          /\ last.fx = <<Fx("show", "activeImpactView", <<>>,
                            <<[scheme |-> "file", path |-> last.args[1]]>>)>>
          /\ activeImpactView = <<[scheme |-> "file", path |-> last.args[1]]>>
     /\ last.args = <<>> => last.fx = <<>>

\* What a step of the active-editor listener leaves alone
C6_Step ==
  last'.op = "activeEditor" =>
     /\ gitImpactView' = gitImpactView
     /\ lookups' = lookups
     /\ last'.args = <<>> => activeImpactView' = activeImpactView

\* C6: an active-editor change carrying an editor with a document shows exactly
\* that document's URI in the active-impact view; one carrying no editor (or no
\* document) shows nothing and leaves both views as they were; neither touches
\* the git-impact view.
C6_ActiveEditorShowsDocument == []C6_State /\ [][C6_Step]_vars

C6_Witness ==
  /\ last.op = "activeEditor"
  /\ last.args = <<"/b/y.sql">>
  /\ gitImpactView = <<FileX, FileY>>
  /\ activeImpactView = <<FileY>>

HasListener(name) == \E k \in DOMAIN subs : subs[k].wf.name = name

\* C3 as claimed: when a state-change event fires for a workspace with a
\* registered handler while the repository's HEAD branch differs from the
\* last-known branch of the workspace, the event clears the git-impact view,
\* issues reloadProject for the workspace and no changed-files lookup, and the
\* new branch becomes the last-known one.
C3_BranchSwitchReloads ==
  (/\ last.op = "stateChange"
   /\ HasListener(last.args[1])
   /\ last.args[2] \in Branches
   /\ last.args[3] # NoBranch
   /\ last.args[2] # last.args[3]) =>
     /\ last.fx = <<Fx("show", "gitImpactView", <<>>, <<>>),
                    Fx("send", "reloadProject", <<ExpectedUri(last.args[1])>>, <<>>)>>
     /\ lastBranch[ExpectedUri(last.args[1])] = last.args[2]

\* C4 as claimed: a state-change event for a workspace whose branch is the
\* last recorded one starts exactly one changed-files lookup and issues no
\* reloadProject request; the lookup's result is then shown, once, in the
\* git-impact view.
C4_SameBranchLooksUpOnce ==
  /\ (/\ last.op = "stateChange"
      /\ HasListener(last.args[1])
      /\ last.args[2] \in Branches
      /\ last.args[2] = last.args[3]) =>
        last.fx = <<Fx("lookup", ExpectedUri(last.args[1]), <<>>, <<>>)>>
  /\ (last.op = "lookupSettled" /\ last.ret.kind = "resolved") =>
        /\ Len(last.fx) = 1
        /\ last.fx[1] = Fx("show", "gitImpactView", <<>>, gitImpactView)

\* C7 as claimed: one state-change event of a workspace issues at most one
\* request (a reloadProject or a changed-files lookup): no workspace ever has
\* two state-change handlers.
C7_OneRequestPerEvent ==
  /\ last.op = "stateChange" => CountFx(last.fx, {"send", "lookup"}) <= 1
  /\ \A i, j \in DOMAIN subs : subs[i].wf = subs[j].wf => i = j

\* C8 as claimed: for a workspace folder with a git repository, every state
\* change of the repository gets the git-impact view rendered: the event clears
\* the view or starts the lookup whose result is shown.
C8_StateChangeRenders ==
  (/\ last.op = "stateChange"
   /\ \E wf \in folders : wf.name = last.args[1]) =>
     \/ \E k \in DOMAIN last.fx : last.fx[k] = Fx("show", "gitImpactView", <<>>, <<>>)
     \/ CountFx(last.fx, {"lookup"}) > 0

\* C9 as claimed: once a branch switch has cleared the git-impact view, the
\* result of a lookup started by an earlier event is not rendered into it.
C9_NoRenderAfterClear ==
  (last.op = "lookupSettled" /\ last.args[2] = "cleared since") => last.fx = <<>>

\* C9 amended: the result of every changed-files lookup that resolves is
\* rendered into the git-impact view when it resolves, also when a branch
\* switch has cleared the view since the lookup started; a rejected lookup
\* renders nothing; the view shows what the latest showImpactFor call gave it.
C9_RendersWhenResolved ==
  /\ (last.op = "lookupSettled" /\ last.ret.kind = "resolved") =>
       /\ Len(last.fx) = 1
       /\ last.fx[1].e = "show"
       /\ last.fx[1].a = "gitImpactView"
       /\ last.fx[1].f \in FileLists
  /\ (last.op = "lookupSettled" /\ last.ret.kind = "rejected") => last.fx = <<>>
  /\ \A k \in DOMAIN last.fx :
       (/\ last.fx[k].e = "show"
        /\ last.fx[k].a = "gitImpactView"
        /\ \A m \in DOMAIN last.fx : (m > k => last.fx[m].e # "show")) =>
          gitImpactView = last.fx[k].f

C9_Witness ==
  /\ last.op = "lookupSettled"
  /\ last.args[2] = "cleared since"
  /\ last.ret.kind = "resolved"
  /\ gitImpactView = <<FileX>>

====
